---- MODULE Spec2Model ----
(***************************************************************************)
(* Model of the obsidian-wikipedia plugin (src/main.ts, first plugin       *)
(* variant, lines 1-408): the fetch / disambiguation / format / insert     *)
(* flow of WikipediaPlugin.pasteIntoEditor and the pure string functions   *)
(* it is built from.                                                       *)
(*                                                                         *)
(* A JavaScript string is a sequence of one-character strings, so that     *)
(* split, trim, includes and replace are computed, not assumed.            *)
(***************************************************************************)
EXTENDS Integers, Sequences, FiniteSets

(***************************************************************************)
(* Bounds of the model.                                                    *)
(***************************************************************************)
\* longest body text enumerated for the bolding cases
MaxBodyLen == 3
\* longest search term enumerated for the bolding cases
MaxTermLen == 2
\* most tokens in an enumerated extract text (a token is the
\* disambiguation marker or a single character)
MaxTokens == 3
\* most pages in an enumerated API response
MaxPages == 2
\* most settings changes made while one invocation is suspended
MaxUpdates == 1

(***************************************************************************)
(* JavaScript string primitives.                                           *)
(***************************************************************************)
NL == "\n"

\* String.prototype.trim strips white space and line terminators
IsWhiteSpace(c) == c \in {" ", NL}

RECURSIVE TrimStart(_)
TrimStart(s) ==
  IF s # <<>> /\ IsWhiteSpace(Head(s)) THEN TrimStart(Tail(s)) ELSE s

RECURSIVE TrimEnd(_)
TrimEnd(s) ==
  IF s # <<>> /\ IsWhiteSpace(s[Len(s)])
  THEN TrimEnd(SubSeq(s, 1, Len(s) - 1))
  ELSE s

Trim(s) == TrimEnd(TrimStart(s))

\* sep occurs in s at index i (1-based)
OccursAt(s, sep, i) ==
  /\ i >= 1
  /\ i + Len(sep) - 1 <= Len(s)
  /\ SubSeq(s, i, i + Len(sep) - 1) = sep

\* String.prototype.indexOf(sep, from): the first index >= from at which
\* sep occurs, 0 when there is none (JavaScript's -1)
RECURSIVE IndexOfFrom(_, _, _)
IndexOfFrom(s, sep, from) ==
  IF from + Len(sep) - 1 > Len(s) THEN 0
  ELSE IF OccursAt(s, sep, from) THEN from
  ELSE IndexOfFrom(s, sep, from + 1)

IndexOf(s, sep) == IndexOfFrom(s, sep, 1)

\* String.prototype.includes
Includes(s, sep) == IndexOf(s, sep) # 0

\* String.prototype.split with a non-empty string separator: the substrings
\* between successive non-overlapping occurrences, scanning left to right
RECURSIVE Split(_, _)
Split(s, sep) ==
  LET i == IndexOf(s, sep)
  IN IF i = 0 THEN <<s>>
     ELSE <<SubSeq(s, 1, i - 1)>> \o Split(SubSeq(s, i + Len(sep), Len(s)), sep)

\* Array.prototype.join("")
RECURSIVE JoinEmpty(_)
JoinEmpty(parts) ==
  IF parts = <<>> THEN <<>> ELSE Head(parts) \o JoinEmpty(Tail(parts))

\* the grave accent character U+0060, which a TLA+ string cannot hold
BackQuote == "<U+0060>"

\* GetSubstitution (ECMA-262) with no capture groups: in the replacement
\* string $$ is $, $& the matched text, $ with a grave accent the text before
\* the match, $ with an apostrophe the text after it; any other $ stands for
\* itself
RECURSIVE GetSubstitution(_, _, _, _)
GetSubstitution(matched, str, position, replacement) ==
  IF replacement = <<>> THEN <<>>
  ELSE IF Head(replacement) = "$" /\ Len(replacement) >= 2
  THEN LET c == replacement[2]
           rest == SubSeq(replacement, 3, Len(replacement))
       IN CASE c = "$" -> <<"$">> \o GetSubstitution(matched, str, position, rest)
            [] c = "&" -> matched \o GetSubstitution(matched, str, position, rest)
            [] c = BackQuote -> SubSeq(str, 1, position - 1)
                            \o GetSubstitution(matched, str, position, rest)
            [] c = "'" -> SubSeq(str, position + Len(matched), Len(str))
                            \o GetSubstitution(matched, str, position, rest)
            [] OTHER -> <<"$">>
                          \o GetSubstitution(matched, str, position, Tail(replacement))
  ELSE <<Head(replacement)>>
         \o GetSubstitution(matched, str, position, Tail(replacement))

\* the string str with the match of length len at position replaced
ReplaceAt(str, position, len, replacement) ==
  SubSeq(str, 1, position - 1)
    \o GetSubstitution(SubSeq(str, position, position + len - 1),
                       str, position, replacement)
    \o SubSeq(str, position + len, Len(str))

\* String.prototype.replace(pattern, replacement) with a string pattern:
\* only the first occurrence is replaced
StringReplace(str, pattern, replacement) ==
  LET i == IndexOf(str, pattern)
  IN IF i = 0 THEN str ELSE ReplaceAt(str, i, Len(pattern), replacement)

LowerCase ==
  <<"a", "b", "c", "d", "e", "f", "g", "h", "i", "j", "k", "l", "m", "n",
    "o", "p", "q", "r", "s", "t", "u", "v", "w", "x", "y", "z">>

UpperCase ==
  <<"A", "B", "C", "D", "E", "F", "G", "H", "I", "J", "K", "L", "M", "N",
    "O", "P", "Q", "R", "S", "T", "U", "V", "W", "X", "Y", "Z">>

Digits == {"0", "1", "2", "3", "4", "5", "6", "7", "8", "9"}

Letters == {LowerCase[i] : i \in 1..26} \cup {UpperCase[i] : i \in 1..26}

\* Canonicalize (ECMA-262, ignoreCase without unicode): a character's upper
\* case
Canonicalize(c) ==
  IF \E i \in 1..26 : LowerCase[i] = c
  THEN UpperCase[CHOOSE i \in 1..26 : LowerCase[i] = c]
  ELSE c

\* the UTF-8 percent-encoding of an ASCII character that is neither a
\* letter, a digit nor one of - _ . ! ~ * ' ( )
PercentEncode(c) ==
    CASE c = " " -> <<"%", "2", "0">>
      [] c = NL -> <<"%", "0", "A">>
      [] c = "\"" -> <<"%", "2", "2">>
      [] c = "#" -> <<"%", "2", "3">>
      [] c = "$" -> <<"%", "2", "4">>
      [] c = "%" -> <<"%", "2", "5">>
      [] c = "&" -> <<"%", "2", "6">>
      [] c = "+" -> <<"%", "2", "B">>
      [] c = "," -> <<"%", "2", "C">>
      [] c = "/" -> <<"%", "2", "F">>
      [] c = ":" -> <<"%", "3", "A">>
      [] c = ";" -> <<"%", "3", "B">>
      [] c = "<" -> <<"%", "3", "C">>
      [] c = "=" -> <<"%", "3", "D">>
      [] c = ">" -> <<"%", "3", "E">>
      [] c = "?" -> <<"%", "3", "F">>
      [] c = "@" -> <<"%", "4", "0">>
      [] c = "[" -> <<"%", "5", "B">>
      [] c = "\\" -> <<"%", "5", "C">>
      [] c = "]" -> <<"%", "5", "D">>
      [] c = "^" -> <<"%", "5", "E">>
      [] c = BackQuote -> <<"%", "6", "0">>
      [] c = "{" -> <<"%", "7", "B">>
      [] c = "|" -> <<"%", "7", "C">>
      [] c = "}" -> <<"%", "7", "D">>
      [] OTHER -> <<"%", "?", "?">>

\* the characters encodeURIComponent leaves alone (uriUnescaped)
UriUnescaped == Letters \cup Digits \cup {"-", "_", ".", "!", "~", "*", "'", "(", ")"}

\* the characters encodeURI leaves alone besides those (uriReserved and #)
UriReserved == {";", "/", "?", ":", "@", "&", "=", "+", "$", ",", "#"}

\* encodeURI
RECURSIVE EncodeURI(_)
EncodeURI(s) ==
  IF s = <<>> THEN <<>>
  ELSE (IF Head(s) \in UriUnescaped \cup UriReserved
        THEN <<Head(s)>> ELSE PercentEncode(Head(s)))
       \o EncodeURI(Tail(s))

\* encodeURIComponent
RECURSIVE EncodeURIComponent(_)
EncodeURIComponent(s) ==
  IF s = <<>> THEN <<>>
  ELSE (IF Head(s) \in UriUnescaped
        THEN <<Head(s)>> ELSE PercentEncode(Head(s)))
       \o EncodeURIComponent(Tail(s))

(***************************************************************************)
(* new RegExp(source, "i") and String.prototype.replace with it, for       *)
(* sources over letters and the pattern characters . + ( : a letter        *)
(* matches itself in either case, . any character but a line terminator,   *)
(* + repeats the atom before it one or more times (greedy), and ( opens a  *)
(* group that nothing closes.                                              *)
(***************************************************************************)
AnyChar == "<any>"

\* the atoms of a source, each with its quantifier; <<>> stands for the
\* SyntaxError the constructor throws ("Unterminated group", "Nothing to
\* repeat")
RECURSIVE RegExpItems(_, _)
RegExpItems(source, acc) ==
  IF source = <<>> THEN [ok |-> TRUE, items |-> acc]
  ELSE LET c == Head(source)
       IN CASE c = "(" -> [ok |-> FALSE, items |-> <<>>]
            [] c = "+" ->
                 IF acc = <<>> \/ acc[Len(acc)].plus
                 THEN [ok |-> FALSE, items |-> <<>>]
                 ELSE RegExpItems(Tail(source),
                        [acc EXCEPT ![Len(acc)] = [@ EXCEPT !.plus = TRUE]])
            [] c = "." ->
                 RegExpItems(Tail(source),
                             Append(acc, [atom |-> AnyChar, plus |-> FALSE]))
            [] OTHER ->
                 RegExpItems(Tail(source),
                             Append(acc, [atom |-> c, plus |-> FALSE]))

NewRegExp(source) == RegExpItems(source, <<>>)

AtomMatches(atom, c) ==
  IF atom = AnyChar THEN c # NL ELSE Canonicalize(atom) = Canonicalize(c)

\* how many characters from position p on match the atom
RECURSIVE RunLength(_, _, _)
RunLength(atom, str, p) ==
  IF p <= Len(str) /\ AtomMatches(atom, str[p])
  THEN 1 + RunLength(atom, str, p + 1)
  ELSE 0

\* the position just after a match of items[k..] starting at p, 0 when there
\* is none; a quantified atom takes as many characters as it can and gives
\* them back one at a time (backtracking)
RECURSIVE MatchEnd(_, _, _, _)
RECURSIVE MatchPlus(_, _, _, _, _)
MatchEnd(items, k, str, p) ==
  IF k > Len(items) THEN p
  ELSE IF items[k].plus
       THEN MatchPlus(items, k, str, p, RunLength(items[k].atom, str, p))
       ELSE IF p <= Len(str) /\ AtomMatches(items[k].atom, str[p])
            THEN MatchEnd(items, k + 1, str, p + 1)
            ELSE 0

MatchPlus(items, k, str, p, count) ==
  IF count = 0 THEN 0
  ELSE LET e == MatchEnd(items, k + 1, str, p + count)
       IN IF e # 0 THEN e ELSE MatchPlus(items, k, str, p, count - 1)

\* the leftmost position at which the pattern matches, 0 when none
RECURSIVE MatchStart(_, _, _)
MatchStart(items, str, p) ==
  IF p > Len(str) + 1 THEN 0
  ELSE IF MatchEnd(items, 1, str, p) # 0 THEN p
  ELSE MatchStart(items, str, p + 1)

\* String.prototype.replace(regexp, replacement), regexp not global: the
\* first match is replaced
RegExpReplace(str, items, replacement) ==
  LET p == MatchStart(items, str, 1)
  IN IF p = 0 THEN str
     ELSE ReplaceAt(str, p, MatchEnd(items, 1, str, p) - p, replacement)

\* a completion: a returned string, or a thrown error named in val
Returned(v) == [threw |-> FALSE, val |-> v]
Thrown(e) == [threw |-> TRUE, val |-> <<e>>]

(***************************************************************************)
(* The plugin's constants.                                                 *)
(***************************************************************************)
\* DEFAULT_SETTINGS.template
DefaultTemplate ==
  <<"{", "{", "t", "e", "x", "t", "}", "}", NL, ">", " ", "[", "W", "i",
    "k", "i", "p", "e", "d", "i", "a", "]", "(", "{", "{", "u", "r", "l",
    "}", "}", ")">>

\* DEFAULT_SETTINGS.paragraphTemplate
DefaultParagraphTemplate ==
  <<">", " ", "{", "{", "p", "a", "r", "a", "g", "r", "a", "p", "h", "T",
    "e", "x", "t", "}", "}", NL, ">", NL>>

\* DEFAULT_SETTINGS.language
DefaultLanguage == <<"e", "n">>

DEFAULT_SETTINGS ==
  [template |-> DefaultTemplate,
   shouldUseParagraphTemplate |-> TRUE,
   shouldBoldSearchTerm |-> TRUE,
   paragraphTemplate |-> DefaultParagraphTemplate,
   language |-> DefaultLanguage,
   fetchMarkdown |-> FALSE]

extractApiUrl ==
  <<"w", "i", "k", "i", "p", "e", "d", "i", "a", ".", "o", "r", "g", "/",
    "w", "/", "a", "p", "i", ".", "p", "h", "p", "?", "f", "o", "r", "m",
    "a", "t", "=", "j", "s", "o", "n", "&", "a", "c", "t", "i", "o", "n",
    "=", "q", "u", "e", "r", "y", "&", "p", "r", "o", "p", "=", "e", "x",
    "t", "r", "a", "c", "t", "s", "&", "e", "x", "p", "l", "a", "i", "n",
    "t", "e", "x", "t", "=", "1", "&", "r", "e", "d", "i", "r", "e", "c",
    "t", "s", "&", "o", "r", "i", "g", "i", "n", "=", "*", "&", "t", "i",
    "t", "l", "e", "s", "=">>

disambiguationIdentifier ==
  <<"m", "a", "y", " ", "r", "e", "f", "e", "r", " ", "t", "o", ":">>

\* the placeholders of the two templates
PlaceholderText ==
  <<"{", "{", "t", "e", "x", "t", "}", "}">>

PlaceholderSearchTerm ==
  <<"{", "{", "s", "e", "a", "r", "c", "h", "T", "e", "r", "m", "}", "}">>

PlaceholderUrl ==
  <<"{", "{", "u", "r", "l", "}", "}">>

PlaceholderParagraphText ==
  <<"{", "{", "p", "a", "r", "a", "g", "r", "a", "p", "h", "T", "e", "x",
    "t", "}", "}">>

SectionDelimiter == <<"=", "=">>

\* the texts of the notices
NotFoundSuffix ==
  <<" ", "n", "o", "t", " ", "f", "o", "u", "n", "d", " ", "o", "n", " ",
    "W", "i", "k", "i", "p", "e", "d", "i", "a", ".">>

CouldntResolveMessage ==
  <<"C", "o", "u", "l", "d", " ", "n", "o", "t", " ", "a", "u", "t", "o",
    "m", "a", "t", "i", "c", "a", "l", "l", "y", " ", "r", "e", "s", "o",
    "l", "v", "e", " ", "d", "i", "s", "a", "m", "b", "i", "g", "u", "a",
    "t", "i", "o", "n", ".">>

FailedMessage ==
  <<"F", "a", "i", "l", "e", "d", " ", "t", "o", " ", "g", "e", "t", " ",
    "W", "i", "k", "i", "p", "e", "d", "i", "a", ".", " ", "C", "h", "e",
    "c", "k", " ", "y", "o", "u", "r", " ", "i", "n", "t", "e", "r", "n",
    "e", "t", " ", "c", "o", "n", "n", "e", "c", "t", "i", "o", "n", " ",
    "o", "r", " ", "l", "a", "n", "g", "u", "a", "g", "e", " ", "p", "r",
    "e", "f", "i", "x", ".">>

DisambiguationPrefix ==
  <<"D", "i", "s", "a", "m", "b", "i", "g", "u", "a", "t", "i", "o", "n",
    " ", "f", "o", "u", "n", "d", " ", "f", "o", "r", " ">>

DisambiguationSuffix ==
  <<".", " ", "C", "h", "o", "o", "s", "i", "n", "g", " ", "f", "i", "r",
    "s", "t", " ", "r", "e", "s", "u", "l", "t", ".">>

(***************************************************************************)
(* WikipediaPlugin: the pure methods. this.settings is the parameter       *)
(* settings.                                                               *)
(***************************************************************************)
\* undefined, where an extract is expected
Undefined == [defined |-> FALSE, title |-> <<>>, text |-> <<>>, url |-> <<>>]

getLanguage(settings) ==
  IF settings.language # <<>> THEN settings.language ELSE <<"e", "n">>

getUrl(title, settings) ==
  <<"h", "t", "t", "p", "s", ":", "/", "/">> \o getLanguage(settings)
    \o <<".", "w", "i", "k", "i", "p", "e", "d", "i", "a", ".", "o", "r", "g",
         "/", "w", "i", "k", "i", "/">>
    \o EncodeURI(title)

getApiUrl(settings) ==
  <<"h", "t", "t", "p", "s", ":", "/", "/">> \o getLanguage(settings)
    \o <<".">> \o extractApiUrl

\* the paragraphs of the lead section, each rendered through the paragraph
\* template
RECURSIVE RenderParagraphs(_, _)
RenderParagraphs(paragraphs, paragraphTemplate) ==
  IF paragraphs = <<>> THEN <<>>
  ELSE <<StringReplace(paragraphTemplate, PlaceholderParagraphText,
                       Head(paragraphs))>>
       \o RenderParagraphs(Tail(paragraphs), paragraphTemplate)

\* mutant: the rendered paragraphs are joined without the final trim
formattedLeadNoFinalTrim(text, settings) ==
  IF settings.shouldUseParagraphTemplate
  THEN JoinEmpty(RenderParagraphs(
              Split(Trim(Split(text, SectionDelimiter)[1]), NL),
              settings.paragraphTemplate))
  ELSE Trim(Split(text, SectionDelimiter)[1])

\* formatExtractText up to the bolding: the lead section, through the
\* paragraph template when that is on
formattedLead(text, settings) ==
  IF settings.shouldUseParagraphTemplate
  THEN Trim(JoinEmpty(RenderParagraphs(
              Split(Trim(Split(text, SectionDelimiter)[1]), NL),
              settings.paragraphTemplate)))
  ELSE Trim(Split(text, SectionDelimiter)[1])

\* the bolding of formatExtractText: new RegExp(searchTerm, "i") may throw
boldSearchTerm(formattedText, searchTerm) ==
  LET pattern == NewRegExp(searchTerm)
  IN IF ~pattern.ok THEN Thrown("SyntaxError")
     ELSE Returned(RegExpReplace(formattedText, pattern.items,
                                 <<"*", "*">> \o searchTerm \o <<"*", "*">>))

formatExtractText(extract, searchTerm, settings) ==
  LET formattedText == formattedLead(extract.text, settings)
  IN IF settings.shouldBoldSearchTerm
     THEN boldSearchTerm(formattedText, searchTerm)
     ELSE Returned(formattedText)

handleNotFound(searchTerm) == searchTerm \o NotFoundSuffix

handleCouldntResolveDisambiguation == CouldntResolveMessage

\* mutant: the text is compared with the identifier instead of searched
hasDisambiguationWholeText(extract) == extract.text = disambiguationIdentifier

hasDisambiguation(extract) == Includes(extract.text, disambiguationIdentifier)

formatExtractInsert(extract, searchTerm, settings) ==
  LET formattedText == formatExtractText(extract, searchTerm, settings)
  IN IF formattedText.threw THEN formattedText
     ELSE Returned(
            StringReplace(
              StringReplace(
                StringReplace(settings.template, PlaceholderText,
                              formattedText.val),
                PlaceholderSearchTerm, searchTerm),
              PlaceholderUrl, extract.url))

\* mutant: the first piece of the candidate is taken, not the last (shift for
\* pop)
newSearchTermFirstPiece(text) ==
  LET afterIdentifier == Trim(Split(text, disambiguationIdentifier)[2])
      candidate == Split(afterIdentifier, <<",">>)[1]
      pieces == Split(candidate, SectionDelimiter)
  IN Trim(pieces[1])

\* the follow-up search term pasteIntoEditor derives from an ambiguous text
newSearchTerm(text) ==
  LET afterIdentifier == Trim(Split(text, disambiguationIdentifier)[2])
      candidate == Split(afterIdentifier, <<",">>)[1]
      pieces == Split(candidate, SectionDelimiter)
  IN Trim(pieces[Len(pieces)])

\* Object.keys of a JSON object given as its members in textual order: the
\* keys that are array indices first, ascending, then the other keys in
\* insertion order ("-1" is no array index); a key is an integer here
RECURSIVE Ascending(_)
Ascending(S) ==
  IF S = {} THEN <<>>
  ELSE LET m == CHOOSE x \in S : \A y \in S : x <= y
       IN <<m>> \o Ascending(S \ {m})

IsStringKey(k) == k < 0

ObjectKeys(pages) ==
  Ascending({pages[i].key : i \in DOMAIN pages} \cap Nat)
    \o SelectSeq([i \in DOMAIN pages |-> pages[i].key], IsStringKey)

\* the key "-1" of a title the API did not find
MissingKey == -1

\* mutant: the first page of the response body is taken, whatever its key
parseResponseFirstInBody(json, settings) ==
  LET pages == json.pages
  IN IF \E i \in DOMAIN pages : pages[i].key = MissingKey THEN Undefined
     ELSE IF pages = <<>> THEN Undefined
     ELSE [defined |-> TRUE,
           title |-> pages[1].title,
           text |-> pages[1].extract,
           url |-> getUrl(pages[1].title, settings)]

parseResponse(json, settings) ==
  LET pages == json.pages
      pageKeys == ObjectKeys(pages)
  IN IF \E i \in DOMAIN pageKeys : pageKeys[i] = MissingKey THEN Undefined
     ELSE IF pageKeys = <<>> THEN Undefined
     ELSE LET page == pages[CHOOSE i \in DOMAIN pages : pages[i].key = pageKeys[1]]
          IN [defined |-> TRUE,
              title |-> page.title,
              text |-> page.extract,
              url |-> getUrl(page.title, settings)]

(***************************************************************************)
(* The inputs of pasteIntoEditor: what the user typed or the active file   *)
(* is called, what the API and the article page answer.                    *)
(***************************************************************************)
TextPlain ==
  <<"f", " ", "b", NL, "=", "=", "H", "=", "=", NL, "c">>

TextAmbiguous ==
  <<"F", " ", "m", "a", "y", " ", "r", "e", "f", "e", "r", " ", "t", "o",
    ":", NL, "A", ",", " ", "b">>

\* both entry points call pasteIntoEditor with a non-empty search term only
SearchTerms == {<<"F">>, <<"(">>}

Page(key, title, extract) == [key |-> key, title |-> title, extract |-> extract]

\* the request rejects (no network, unknown language prefix)
ResponseRejected == [kind |-> "rejected", pages |-> <<>>]
\* the body is not JSON: JSON.parse throws
ResponseNotJson == [kind |-> "notjson", pages |-> <<>>]
JsonResponse(pages) == [kind |-> "json", pages |-> pages]

Responses ==
  {ResponseRejected, ResponseNotJson,
   JsonResponse(<<Page(MissingKey, <<"F">>, <<>>)>>),
   JsonResponse(<<Page(7, <<"F">>, TextPlain)>>),
   JsonResponse(<<Page(7, <<"F">>, TextAmbiguous)>>),
   JsonResponse(<<Page(3, <<"A", " ", "b">>, TextPlain)>>)}

\* what extractWikiMarkdown comes to: a markdown text, or an error (the
\* request rejects, the page has no content element)
MarkdownResults ==
  {Thrown("Error"), Returned(TextPlain), Returned(TextAmbiguous)}

SettingsValues ==
  {[template |-> t,
    shouldUseParagraphTemplate |-> p,
    shouldBoldSearchTerm |-> b,
    paragraphTemplate |-> DefaultParagraphTemplate,
    language |-> l,
    fetchMarkdown |-> m] :
     t \in {DefaultTemplate, PlaceholderSearchTerm \o <<":">> \o PlaceholderText},
     p \in BOOLEAN, b \in BOOLEAN, m \in BOOLEAN,
     l \in {DefaultLanguage, <<>>}}

LanguageValues == {DefaultLanguage, <<>>, <<"d", "e">>}

\* what the onChange handlers of the settings tab can assign: a field of
\* this.settings and its new value
SettingUpdates ==
  {[field |-> "language", value |-> l] : l \in LanguageValues}
    \cup {[field |-> "template", value |-> t] :
            t \in {DefaultTemplate,
                   PlaceholderSearchTerm \o <<":">> \o PlaceholderText}}
    \cup {[field |-> "paragraphTemplate", value |-> t] :
            t \in {DefaultParagraphTemplate, PlaceholderParagraphText \o <<NL>>}}
    \cup {[field |-> f, value |-> b] :
            f \in {"shouldBoldSearchTerm", "shouldUseParagraphTemplate",
                   "fetchMarkdown"},
            b \in BOOLEAN}

(***************************************************************************)
(* The state.                                                              *)
(***************************************************************************)
VARIABLES
  settings,    \* this.settings
  pc,          \* where the invocation of pasteIntoEditor is: "idle", "request"
               \* (getWikipediaText awaits request), "markdown" (it awaits
               \* extractWikiMarkdown), "done"
  searchTerm,  \* pasteIntoEditor's argument
  extract,     \* getWikipediaText's local extract
  calls,       \* the titles getWikipediaText was called with, in order
  requests,    \* the URLs of the API requests made, in order
  responses,   \* what each of them settled with, in order
  results,     \* how each call of getWikipediaText ended, in order
  notices,     \* the messages of the Notices created, in order
  inserted,    \* the texts handed to editor.replaceSelection, in order
  error,       \* the error pasteIntoEditor's promise rejected with, <<>> if none
  modal,       \* the WikipediaSearchModal: "none", "open", "closed"
  modalSearchTerm, \* its this.searchTerm, <<>> while undefined or empty
  closedBy,    \* what closed it: "none", "search", "enter", "cancel"
  settingsAtStart, \* the value of this.settings when pasteIntoEditor was called
  updates,     \* the number of settings changes made since
  fnInput,     \* the arguments of a pure function under test
  fnOutput     \* what it returned

vars ==
  <<settings, pc, searchTerm, extract, calls, requests, responses, results,
    notices, inserted, error, modal, modalSearchTerm, closedBy,
    settingsAtStart, updates, fnInput, fnOutput>>

modalVars == <<modal, modalSearchTerm, closedBy>>
updateVars == <<settingsAtStart, updates>>

fnVars == <<fnInput, fnOutput>>

NoInput ==
  [text |-> <<>>, searchTerm |-> <<>>, settings |-> DEFAULT_SETTINGS,
   pages |-> <<>>]
NoOutput == [fn |-> "none", threw |-> FALSE, val |-> <<>>, extract |-> Undefined]

Init ==
  /\ settings \in SettingsValues
  /\ pc = "idle"
  /\ searchTerm = <<>>
  /\ extract = Undefined
  /\ calls = <<>>
  /\ requests = <<>>
  /\ responses = <<>>
  /\ results = <<>>
  /\ notices = <<>>
  /\ inserted = <<>>
  /\ error = <<>>
  /\ modal = "none"
  /\ modalSearchTerm = <<>>
  /\ closedBy = "none"
  /\ settingsAtStart = settings
  /\ updates = 0
  /\ fnInput = NoInput
  /\ fnOutput = NoOutput

(***************************************************************************)
(* getWikipediaText and pasteIntoEditor, one action per stretch of code    *)
(* between two awaits.                                                     *)
(***************************************************************************)
\* getWikipediaText(title) up to its await of request
CallGetWikipediaText(title) ==
  /\ calls' = Append(calls, title)
  /\ requests' = Append(requests, getApiUrl(settings) \o EncodeURIComponent(title))
  /\ pc' = "request"

\* pasteIntoEditor's promise rejects with error e
Reject(e) ==
  /\ error' = e
  /\ pc' = "done"

\* mutant: the extract is formatted with the term of the last fetch
InsertExtractWithFetchedTerm(e) ==
  LET text == formatExtractInsert(e, calls[Len(calls)], settings)
  IN IF text.threw
     THEN Reject(text.val) /\ UNCHANGED inserted
     ELSE /\ inserted' = Append(inserted, text.val)
          /\ pc' = "done"
          /\ UNCHANGED error

\* editor.replaceSelection(this.formatExtractInsert(extract, searchTerm))
InsertExtract(e) ==
  LET text == formatExtractInsert(e, searchTerm, settings)
  IN IF text.threw
     THEN Reject(text.val) /\ UNCHANGED inserted
     ELSE /\ inserted' = Append(inserted, text.val)
          /\ pc' = "done"
          /\ UNCHANGED error

\* pasteIntoEditor after its first await: e is what getWikipediaText returned
AfterFirstFetch(e) ==
  IF ~e.defined
  THEN /\ notices' = Append(notices, handleNotFound(searchTerm))
       /\ pc' = "done"
       /\ UNCHANGED <<calls, requests, inserted, error>>
  ELSE IF hasDisambiguation(e)
  THEN /\ notices' = Append(notices,
                       DisambiguationPrefix \o searchTerm \o DisambiguationSuffix)
       /\ CallGetWikipediaText(newSearchTerm(e.text))
       /\ UNCHANGED <<inserted, error>>
  ELSE /\ InsertExtract(e)
       /\ UNCHANGED <<calls, requests, notices>>

\* mutant: no return after handleCouldntResolveDisambiguation, the extract
\* of the first fetch is inserted
AfterSecondFetchFallsBack(e) ==
  IF ~e.defined
  THEN /\ notices' = Append(notices, handleCouldntResolveDisambiguation)
       /\ InsertExtract(results[1].extract)
       /\ UNCHANGED <<calls, requests>>
  ELSE /\ InsertExtract(e)
       /\ UNCHANGED <<calls, requests, notices>>

\* mutant: a second NotFound is reported by both handlers
AfterSecondFetchTwoNotices(e) ==
  IF ~e.defined
  THEN /\ notices' = notices \o <<handleNotFound(searchTerm),
                                   handleCouldntResolveDisambiguation>>
       /\ pc' = "done"
       /\ UNCHANGED <<calls, requests, inserted, error>>
  ELSE /\ InsertExtract(e)
       /\ UNCHANGED <<calls, requests, notices>>

\* pasteIntoEditor after its second await
AfterSecondFetch(e) ==
  IF ~e.defined
  THEN /\ notices' = Append(notices, handleCouldntResolveDisambiguation)
       /\ pc' = "done"
       /\ UNCHANGED <<calls, requests, inserted, error>>
  ELSE /\ InsertExtract(e)
       /\ UNCHANGED <<calls, requests, notices>>

\* getWikipediaText returns e to pasteIntoEditor, which runs on to its next
\* await or to its end
Return(e) ==
  /\ results' = Append(results, [threw |-> FALSE, extract |-> e])
  /\ extract' = e
  /\ IF Len(calls) = 1 THEN AfterFirstFetch(e) ELSE AfterSecondFetch(e)

\* getWikipediaText throws e, and pasteIntoEditor with it
Throw(e) ==
  /\ results' = Append(results, [threw |-> TRUE, extract |-> Undefined])
  /\ Reject(e)
  /\ UNCHANGED <<extract, calls, requests, inserted>>

\* the active-note command calls pasteIntoEditor(editor, term), term being
\* the non-empty basename of the active file
PasteIntoEditor(term) ==
  /\ pc = "idle"
  /\ modal = "none"
  /\ searchTerm' = term
  /\ settingsAtStart' = settings
  /\ CallGetWikipediaText(term)
  /\ UNCHANGED <<settings, extract, responses, results, notices, inserted,
                 error, modalVars, updates, fnVars>>

\* the search-term command: new WikipediaSearchModal(...).open()
OpenSearchModal ==
  /\ pc = "idle"
  /\ modal = "none"
  /\ modal' = "open"
  /\ UNCHANGED <<settings, pc, searchTerm, extract, calls, requests, responses,
                 results, notices, inserted, error, modalSearchTerm, closedBy,
                 updateVars, fnVars>>

\* the input's onChange handler: this.searchTerm = searchTerm
TypeSearchTerm(term) ==
  /\ modal = "open"
  /\ modalSearchTerm' = term
  /\ UNCHANGED <<settings, pc, searchTerm, extract, calls, requests, responses,
                 results, notices, inserted, error, modal, closedBy,
                 updateVars, fnVars>>

\* the Search button, the Enter key and the Cancel button all call
\* this.close(), and onClose calls pasteIntoEditor when this.searchTerm is
\* truthy
CloseModal(how) ==
  /\ modal = "open"
  /\ modal' = "closed"
  /\ closedBy' = how
  /\ UNCHANGED <<settings, extract, responses, results, notices, inserted,
                 error, modalSearchTerm, updates, fnVars>>
  /\ IF modalSearchTerm # <<>>
     THEN /\ searchTerm' = modalSearchTerm
          /\ settingsAtStart' = settings
          /\ CallGetWikipediaText(modalSearchTerm)
     ELSE UNCHANGED <<pc, searchTerm, calls, requests, settingsAtStart>>

\* an onChange handler of the settings tab runs while pasteIntoEditor is
\* suspended on a request: this.plugin.settings.field = value
UpdateSettings(u) ==
  /\ pc \in {"request", "markdown"}
  /\ updates < MaxUpdates
  /\ settings[u.field] # u.value
  /\ settings' = [settings EXCEPT ![u.field] = u.value]
  /\ updates' = updates + 1
  /\ UNCHANGED <<pc, searchTerm, extract, calls, requests, responses, results,
                 notices, inserted, error, modalVars, settingsAtStart, fnVars>>

\* the request settles with response r: the rest of getWikipediaText up to
\* its next await or its end. A failed request or JSON.parse leaves resp the
\* Notice the catch handler returned, and parseResponse reads
\* resp.query.pages of it: a TypeError
RequestSettles(r) ==
  /\ pc = "request"
  /\ responses' = Append(responses, r)
  /\ UNCHANGED <<settings, searchTerm, modalVars, updateVars, fnVars>>
  /\ IF r.kind # "json"
     THEN /\ notices' = Append(notices, FailedMessage)
          /\ Throw(<<"TypeError">>)
     ELSE LET parsed == parseResponse(r, settings)
          IN IF settings.fetchMarkdown
             THEN /\ extract' = parsed
                  /\ pc' = "markdown"
                  /\ UNCHANGED <<calls, requests, results, notices, inserted,
                                 error>>
             ELSE Return(parsed)

\* extractWikiMarkdown settles with m: extract.text = m, which is a
\* TypeError when extract is undefined
MarkdownSettles(m) ==
  /\ pc = "markdown"
  /\ UNCHANGED <<settings, searchTerm, responses, modalVars, updateVars,
                 fnVars>>
  /\ IF m.threw THEN Throw(m.val) /\ UNCHANGED notices
     ELSE IF ~extract.defined THEN Throw(<<"TypeError">>) /\ UNCHANGED notices
     ELSE Return([extract EXCEPT !.text = m.val])

\* what the modal's input can hold after a change
TypedTerms == SearchTerms \cup {<<>>}

CloseControls == {"search", "enter", "cancel"}

Next ==
  \/ \E term \in SearchTerms : PasteIntoEditor(term)
  \/ OpenSearchModal
  \/ \E term \in TypedTerms : TypeSearchTerm(term)
  \/ \E how \in CloseControls : CloseModal(how)
  \/ \E r \in Responses : RequestSettles(r)
  \/ \E m \in MarkdownResults : MarkdownSettles(m)

Spec == Init /\ [][Next]_vars

\* the same with the settings tab open: its handlers run between the steps
\* of a suspended invocation
NextSettings ==
  \/ Next
  \/ \E u \in SettingUpdates : UpdateSettings(u)

SettingsSpec == Init /\ [][NextSettings]_vars

(***************************************************************************)
(* What an invocation of pasteIntoEditor met, read off its history.        *)
(***************************************************************************)
Done == pc = "done"

\* the response names the title as missing (the "-1" key)
HasMissingKey(r) ==
  r.kind = "json" /\ \E i \in DOMAIN r.pages : r.pages[i].key = MissingKey

\* the request or the JSON decoding of fetch i failed
FetchFailed(i) == i \in DOMAIN responses /\ responses[i].kind # "json"

\* getWikipediaText call i returned an extract (not undefined, no throw)
Resolved(i) ==
  i \in DOMAIN results /\ ~results[i].threw /\ results[i].extract.defined

\* getWikipediaText call i returned undefined
ReturnedNotFound(i) ==
  i \in DOMAIN results /\ ~results[i].threw /\ ~results[i].extract.defined

Ambiguous(i) ==
  Resolved(i) /\ Includes(results[i].extract.text, disambiguationIdentifier)

DisambiguationNotice ==
  DisambiguationPrefix \o searchTerm \o DisambiguationSuffix

\* the notices that describe a failure
FailureNotices ==
  {i \in DOMAIN notices :
     notices[i] \in {searchTerm \o NotFoundSuffix, CouldntResolveMessage,
                     FailedMessage}}

(***************************************************************************)
(* The claims about pasteIntoEditor, under Spec.                           *)
(***************************************************************************)
\* C1: an invocation calls getWikipediaText at most twice; a call starts only
\* when every earlier call has ended; an invocation that has ended made
\* exactly one call when the first call threw, returned NotFound or returned
\* an unambiguous extract, and exactly two when it returned an ambiguous one
\* (whatever the second came to).
C1_FetchCount ==
  /\ Len(calls) <= 2
  /\ Len(calls) <= Len(results) + 1
  /\ Len(results) <= Len(calls)
  /\ Done =>
       /\ Len(results) = Len(calls)
       /\ (results[1].threw \/ ReturnedNotFound(1) \/ (Resolved(1) /\ ~Ambiguous(1)))
            => Len(calls) = 1
       /\ Ambiguous(1) => Len(calls) = 2

\* C1's case: ambiguous first result, a second fetch that is NotFound
C1_Witness == Done /\ Ambiguous(1) /\ ReturnedNotFound(2)

\* C2: editor.replaceSelection is called at most once, and only at the end of
\* an invocation in which every request and decoding succeeded, the last
\* response did not name the title missing and getWikipediaText returned an
\* extract; nothing is inserted after NotFound, after a second NotFound or
\* after a fetch error.
C2_SinkOnlyWhenResolved ==
  /\ Len(inserted) <= 1
  /\ inserted # <<>> =>
       /\ Done
       /\ error = <<>>
       /\ Resolved(Len(results))
       /\ ~HasMissingKey(responses[Len(responses)])
       /\ \A i \in DOMAIN responses : ~FetchFailed(i)
  /\ (Done /\ (\E i \in DOMAIN responses :
                 FetchFailed(i) \/ HasMissingKey(responses[i])))
       => inserted = <<>>

\* C2's case: the text of a resolved disambiguation reached the sink
C2_Witness == Done /\ Len(inserted) = 1 /\ Len(calls) = 2

\* the failure modes of C3: NotFound on the first fetch, NotFound on the
\* second, a failed request or decoding
FailureMode ==
  \/ HasMissingKey(responses[1])
  \/ (Len(responses) = 2 /\ HasMissingKey(responses[2]))
  \/ \E i \in DOMAIN responses : FetchFailed(i)

C4_FetchErrorCaught ==
  (Done /\ \E i \in DOMAIN responses : FetchFailed(i)) =>
     /\ notices[Len(notices)] = FailedMessage
     /\ error = <<>>
     /\ inserted = <<>>

\* C5: when the first response names the title missing, whatever the
\* settings, the invocation ends with the one Notice "<searchTerm> not found
\* on Wikipedia.", one fetch and no insertion.
C5_NotFoundNotice ==
  (Done /\ HasMissingKey(responses[1])) =>
     /\ notices = <<searchTerm \o NotFoundSuffix>>
     /\ Len(calls) = 1
     /\ inserted = <<>>

\* the template {{searchTerm}}:{{text}}
SearchTermFirstTemplate == PlaceholderSearchTerm \o <<":">> \o PlaceholderText

\* C6: after a resolved disambiguation the inserted text is formatExtractInsert
\* of the second fetch's extract and the search term pasteIntoEditor was called
\* with; the derived term is the argument of the second fetch only (with the
\* template {{searchTerm}}:{{text}} the text starts with the original term).
C6_OriginalTermFormatted ==
  (inserted # <<>> /\ Len(calls) = 2) =>
     /\ calls[1] = searchTerm
     /\ calls[2] = newSearchTerm(results[1].extract.text)
     /\ inserted[1] =
          formatExtractInsert(results[2].extract, searchTerm, settings).val
     /\ settings.template = SearchTermFirstTemplate
          => SubSeq(inserted[1], 1, Len(searchTerm) + 1) = searchTerm \o <<":">>

\* C6's case: the derived term differs from the original one and the template
\* shows the search term
C6_Witness ==
  /\ inserted # <<>>
  /\ Len(calls) = 2
  /\ calls[2] # searchTerm
  /\ settings.template = SearchTermFirstTemplate
  /\ settings.shouldBoldSearchTerm

(***************************************************************************)
(* The pure functions on their own: a second specification, which draws    *)
(* the arguments from bounded sets and calls one function on them.         *)
(***************************************************************************)
SeqsUpTo(S, n) == UNION {[1..k -> S] : k \in 0..n}

\* extract texts: every sequence of at most MaxTokens tokens, a token being
\* the disambiguation identifier, the section delimiter or a character
TokenAlphabet ==
  {disambiguationIdentifier, SectionDelimiter, <<",">>, <<"=">>, <<" ">>,
   <<NL>>, <<"F">>}

TokenTexts == {JoinEmpty(t) : t \in SeqsUpTo(TokenAlphabet, MaxTokens)}

\* bodies and search terms for the bolding: letters in both cases and the
\* pattern characters . + (
BodyAlphabet == {"a", "B", "."}
TermAlphabet == {"a", "b", ".", "+", "("}

Bodies == SeqsUpTo(BodyAlphabet, MaxBodyLen)
Terms == SeqsUpTo(TermAlphabet, MaxTermLen) \ {<<>>}

PlainSettings ==
  [DEFAULT_SETTINGS EXCEPT !.shouldUseParagraphTemplate = FALSE,
                           !.shouldBoldSearchTerm = FALSE]
ParagraphSettings == [DEFAULT_SETTINGS EXCEPT !.shouldBoldSearchTerm = FALSE]
BoldSettings == [DEFAULT_SETTINGS EXCEPT !.shouldUseParagraphTemplate = FALSE]

FnInput(text, term, s) ==
  [text |-> text, searchTerm |-> term, settings |-> s, pages |-> <<>>]

\* the examples of the specification's testable properties
ExampleDisambiguation ==
  <<"X", " ", "m", "a", "y", " ", "r", "e", "f", "e", "r", " ", "t", "o",
    ":", NL, NL, "F", "o", "o", ",", " ", "a", " ", "p", "l", "a", "c",
    "e", NL, "B", "a", "r", ",", " ", "a", " ", "p", "e", "r", "s", "o", "n">>

ExampleTwoParagraphs == <<"A", NL, "B">>

ExampleSections ==
  <<"I", "n", "t", "r", "o", " ", "l", "i", "n", "e", ".", NL, NL, "=",
    "=", "H", "i", "s", "t", "o", "r", "y", "=", "=", NL, "O", "l", "d",
    " ", "s", "t", "u", "f", "f">>

ExampleParis ==
  <<"P", "a", "r", "i", "s", " ", "i", "s", " ", "a", " ", "c", "i", "t",
    "y", ".", " ", "P", "a", "r", "i", "s">>

ExampleInputs ==
  {FnInput(ExampleDisambiguation, <<"X">>, PlainSettings),
   FnInput(ExampleTwoParagraphs, <<"A">>, ParagraphSettings),
   FnInput(ExampleSections, <<"I">>, PlainSettings),
   FnInput(ExampleParis, <<"p", "a", "r", "i", "s">>, BoldSettings),
   FnInput(<<"C", "+", "+">>, <<"C", "+", "+">>, DEFAULT_SETTINGS)}

\* templates, lead texts and search terms for the substitution of the main
\* template: placeholders that repeat, values that hold placeholder text or
\* the $ patterns of String.prototype.replace
InsertTemplates ==
  {PlaceholderText \o <<"|">> \o PlaceholderText,
   PlaceholderText \o <<" ">> \o PlaceholderSearchTerm,
   PlaceholderSearchTerm \o PlaceholderUrl \o <<"|">> \o PlaceholderUrl
     \o PlaceholderSearchTerm \o PlaceholderText,
   <<"n", "o", "n", "e">>}

InsertTexts ==
  {<<"a">>, PlaceholderText, PlaceholderSearchTerm, <<"a", "$", "&">>,
   <<"$", "$">>}

InsertTerms == {<<"F">>, PlaceholderText, PlaceholderUrl, <<"$", "'">>}

InsertInputs ==
  {FnInput(b, q, [PlainSettings EXCEPT !.template = t]) :
     b \in InsertTexts, q \in InsertTerms, t \in InsertTemplates}

\* responses for parseResponse: the pages of json.query.pages in the order of
\* the response body, no key twice, under each language setting
PageValues ==
  {Page(MissingKey, <<"F">>, <<>>),
   Page(-2, <<"G">>, <<>>),
   Page(3, <<"A", " ", "b">>, TextPlain),
   Page(7, <<"F">>, TextAmbiguous)}

PagesValues ==
  {ps \in SeqsUpTo(PageValues, MaxPages) :
     \A i, j \in DOMAIN ps : i # j => ps[i].key # ps[j].key}

PagesInputs ==
  {[text |-> <<>>, searchTerm |-> <<>>,
    settings |-> [PlainSettings EXCEPT !.language = l], pages |-> ps] :
     ps \in PagesValues, l \in LanguageValues}

FnInputs ==
  {FnInput(t, <<"F">>, s) : t \in TokenTexts,
                            s \in {PlainSettings, ParagraphSettings}}
    \cup {FnInput(b, q, BoldSettings) : b \in Bodies, q \in Terms}
    \cup InsertInputs
    \cup PagesInputs
    \cup ExampleInputs

\* the extract a function under test is given
FnExtract ==
  [defined |-> TRUE,
   title |-> <<"X">>,
   text |-> fnInput.text,
   url |-> getUrl(<<"X">>, fnInput.settings)]

FnResult(fn, r) ==
  [fn |-> fn, threw |-> r.threw, val |-> r.val, extract |-> Undefined]

InitFn ==
  /\ settings = DEFAULT_SETTINGS
  /\ pc = "idle"
  /\ searchTerm = <<>>
  /\ extract = Undefined
  /\ calls = <<>>
  /\ requests = <<>>
  /\ responses = <<>>
  /\ results = <<>>
  /\ notices = <<>>
  /\ inserted = <<>>
  /\ error = <<>>
  /\ modal = "none"
  /\ modalSearchTerm = <<>>
  /\ closedBy = "none"
  /\ settingsAtStart = settings
  /\ updates = 0
  /\ fnInput \in FnInputs
  /\ fnOutput = NoOutput

pasteVars ==
  <<settings, pc, searchTerm, extract, calls, requests, responses, results,
    notices, inserted, error, modal, modalSearchTerm, closedBy,
    settingsAtStart, updates>>

CallFormatExtractText ==
  /\ fnOutput = NoOutput
  /\ fnOutput' = FnResult("formatExtractText",
                   formatExtractText(FnExtract, fnInput.searchTerm,
                                     fnInput.settings))
  /\ UNCHANGED <<fnInput, pasteVars>>

CallFormatExtractInsert ==
  /\ fnOutput = NoOutput
  /\ fnOutput' = FnResult("formatExtractInsert",
                   formatExtractInsert(FnExtract, fnInput.searchTerm,
                                       fnInput.settings))
  /\ UNCHANGED <<fnInput, pasteVars>>

\* pasteIntoEditor derives the term of an ambiguous extract only
CallNewSearchTerm ==
  /\ fnOutput = NoOutput
  /\ hasDisambiguation(FnExtract)
  /\ fnOutput' = FnResult("newSearchTerm", Returned(newSearchTerm(fnInput.text)))
  /\ UNCHANGED <<fnInput, pasteVars>>

CallParseResponse ==
  /\ fnOutput = NoOutput
  /\ fnOutput' = [fn |-> "parseResponse", threw |-> FALSE, val |-> <<>>,
                  extract |-> parseResponse(JsonResponse(fnInput.pages),
                                            fnInput.settings)]
  /\ UNCHANGED <<fnInput, pasteVars>>

NextFn ==
  \/ CallFormatExtractText
  \/ CallFormatExtractInsert
  \/ CallNewSearchTerm
  \/ CallParseResponse

FnSpec == InitFn /\ [][NextFn]_vars

(***************************************************************************)
(* The claims about the pure functions, under FnSpec.                      *)
(***************************************************************************)
\* the text after the first occurrence of the identifier
AfterFirstIdentifier(text) ==
  SubSeq(text, IndexOf(text, disambiguationIdentifier)
                 + Len(disambiguationIdentifier), Len(text))

\* s up to the first occurrence of sep, all of s when there is none
UpToFirst(s, sep) ==
  IF IndexOf(s, sep) = 0 THEN s ELSE SubSeq(s, 1, IndexOf(s, sep) - 1)

\* the last segment of s split on the section delimiter
RECURSIVE LastSection(_)
LastSection(s) ==
  IF IndexOf(s, SectionDelimiter) = 0 THEN s
  ELSE LastSection(SubSeq(s, IndexOf(s, SectionDelimiter) + 2, Len(s)))

\* C7 as stated: the derived term is computed from everything after the first
\* occurrence of "may refer to:", later occurrences included: trimmed, cut at
\* the first comma, its last "=="-segment taken and trimmed.
C7_EverythingAfterFirst ==
  fnOutput.fn = "newSearchTerm" =>
    fnOutput.val =
      Trim(LastSection(UpToFirst(Trim(AfterFirstIdentifier(fnInput.text)),
                                 <<",">>)))

\* C7 as amended: the derived term is computed from the text between the
\* first occurrence of "may refer to:" and the next one (the end of the text
\* when there is no other): trimmed, cut at the first comma, its last
\* "=="-segment taken and trimmed; the example text gives "Foo".
C7_BetweenIdentifiers ==
  fnOutput.fn = "newSearchTerm" =>
    /\ fnOutput.val =
         Trim(LastSection(UpToFirst(
           Trim(UpToFirst(AfterFirstIdentifier(fnInput.text),
                          disambiguationIdentifier)),
           <<",">>)))
    /\ fnInput.text = ExampleDisambiguation => fnOutput.val = <<"F", "o", "o">>

\* C7's case: a text with a second identifier after a non-empty candidate
C7_Witness ==
  /\ fnOutput.fn = "newSearchTerm"
  /\ Includes(AfterFirstIdentifier(fnInput.text), disambiguationIdentifier)
  /\ fnOutput.val # <<>>

\* the arguments of C8: the default paragraph template, bolding off, the lead
\* text "A\nB"
C8_Case ==
  /\ fnOutput.fn = "formatExtractText"
  /\ fnInput.text = ExampleTwoParagraphs
  /\ fnInput.settings = ParagraphSettings

\* C8 as stated: the result is "> A\n>\n> B".
C8_TailRemoved ==
  C8_Case => fnOutput.val = <<">", " ", "A", NL, ">", NL, ">", " ", "B">>

\* C8 as amended: the result is "> A\n>\n> B\n>": the final trim removes the
\* white space after the last paragraph's template, which is its last line
\* break only, and the ">" before it stays; with the paragraph template on and
\* bolding off no result starts or ends with white space.
C8_TailKept ==
  /\ C8_Case =>
       fnOutput.val = <<">", " ", "A", NL, ">", NL, ">", " ", "B", NL, ">">>
  /\ (fnOutput.fn = "formatExtractText"
      /\ fnInput.settings = ParagraphSettings)
       => /\ ~fnOutput.threw
          /\ fnOutput.val = Trim(fnOutput.val)

\* C8's case
C8_Witness == C8_Case /\ ~fnOutput.threw

\* s with every letter in upper case
FoldCase(s) == [i \in DOMAIN s |-> Canonicalize(s[i])]

\* body with the first occurrence of term, read as a literal string and
\* whatever its case, replaced by **term**
LiteralBold(body, term) ==
  LET i == IndexOf(FoldCase(body), FoldCase(term))
  IN IF i = 0 THEN body
     ELSE SubSeq(body, 1, i - 1) \o <<"*", "*">> \o term \o <<"*", "*">>
            \o SubSeq(body, i + Len(term), Len(body))

\* C9: with bolding on, the body formatExtractText returns is the lead text
\* with the first case-insensitive occurrence of the search term, taken as a
\* literal string, replaced by **searchTerm**, and the lead text itself when
\* the term does not occur in it.
C9_LiteralMatch ==
  (fnOutput.fn = "formatExtractText"
   /\ fnInput.settings = BoldSettings
   /\ ~fnOutput.threw)
    => fnOutput.val =
         LiteralBold(Trim(UpToFirst(fnInput.text, SectionDelimiter)),
                     fnInput.searchTerm)

\* C10: formatExtractText and formatExtractInsert return a string and never
\* throw, whatever the search term.
C10_NeverThrows ==
  fnOutput.fn \in {"formatExtractText", "formatExtractInsert"}
    => ~fnOutput.threw

\* the template with the first occurrence of each placeholder not in used
\* replaced by its value, the values copied as they are and not read again
RECURSIVE SubstituteOnce(_, _, _)
SubstituteOnce(template, values, used) ==
  IF template = <<>> THEN <<>>
  ELSE IF "text" \notin used /\ OccursAt(template, PlaceholderText, 1)
  THEN values.text
         \o SubstituteOnce(SubSeq(template, Len(PlaceholderText) + 1,
                                  Len(template)),
                           values, used \cup {"text"})
  ELSE IF "searchTerm" \notin used
          /\ OccursAt(template, PlaceholderSearchTerm, 1)
  THEN values.searchTerm
         \o SubstituteOnce(SubSeq(template, Len(PlaceholderSearchTerm) + 1,
                                  Len(template)),
                           values, used \cup {"searchTerm"})
  ELSE IF "url" \notin used /\ OccursAt(template, PlaceholderUrl, 1)
  THEN values.url
         \o SubstituteOnce(SubSeq(template, Len(PlaceholderUrl) + 1,
                                  Len(template)),
                           values, used \cup {"url"})
  ELSE <<Head(template)>> \o SubstituteOnce(Tail(template), values, used)

\* C11: formatExtractInsert returns the main template with the first
\* occurrence in the template of {{text}}, {{searchTerm}} and {{url}} replaced
\* by the formatted body, the raw search term and extract.url, later
\* occurrences left as they are and the values copied verbatim, not scanned
\* again.
C11_VerbatimFirstOccurrence ==
  (fnOutput.fn = "formatExtractInsert" /\ ~fnOutput.threw) =>
    fnOutput.val =
      SubstituteOnce(fnInput.settings.template,
                     [text |-> formatExtractText(FnExtract, fnInput.searchTerm,
                                                 fnInput.settings).val,
                      searchTerm |-> fnInput.searchTerm,
                      url |-> FnExtract.url],
                     {})

\* the keys of the pages of the response parseResponse was given
PageKeys == {fnInput.pages[i].key : i \in DOMAIN fnInput.pages}

\* the key Object.keys enumerates first: the least page id when there is one,
\* else the first key of the response body
FirstKey ==
  IF PageKeys \cap Nat # {}
  THEN CHOOSE k \in PageKeys \cap Nat : \A j \in PageKeys \cap Nat : k <= j
  ELSE fnInput.pages[1].key

FirstPage ==
  fnInput.pages[CHOOSE i \in DOMAIN fnInput.pages :
                  fnInput.pages[i].key = FirstKey]

WikiUrlPrefix(language) ==
  <<"h", "t", "t", "p", "s", ":", "/", "/">> \o language
    \o <<".", "w", "i", "k", "i", "p", "e", "d", "i", "a", ".", "o", "r", "g",
         "/", "w", "i", "k", "i", "/">>

\* C12: parseResponse returns undefined for every response whose pages have the
\* key "-1", other keys or not (and for a response with no page at all); for
\* every other response it returns the extract of the first key Object.keys
\* enumerates, with that page's title and text and the url
\* https://{language}.wikipedia.org/wiki/{encodeURI(title)}, the language
\* being "en" when the setting is empty (the title "A b" gives .../wiki/A%20b).
C12_ParseResponse ==
  fnOutput.fn = "parseResponse" =>
    /\ MissingKey \in PageKeys => fnOutput.extract = Undefined
    /\ PageKeys = {} => fnOutput.extract = Undefined
    /\ (MissingKey \notin PageKeys /\ PageKeys # {}) =>
         LET language == IF fnInput.settings.language = <<>>
                         THEN <<"e", "n">>
                         ELSE fnInput.settings.language
         IN /\ fnOutput.extract.defined
            /\ fnOutput.extract.title = FirstPage.title
            /\ fnOutput.extract.text = FirstPage.extract
            /\ fnOutput.extract.url
                 = WikiUrlPrefix(language) \o EncodeURI(FirstPage.title)
            /\ FirstPage.title = <<"A", " ", "b">>
                 => fnOutput.extract.url
                      = WikiUrlPrefix(language) \o <<"A", "%", "2", "0", "b">>

\* C12's case: two pages whose order in the body is not the order of their
\* keys, and an empty language setting
C12_Witness ==
  /\ fnOutput.fn = "parseResponse"
  /\ Len(fnInput.pages) = 2
  /\ fnInput.pages[1].key = 7
  /\ fnInput.pages[2].key = 3
  /\ fnInput.settings.language = <<>>
  /\ fnOutput.extract.title = <<"A", " ", "b">>

\* C13: after the Cancel button closed the search modal, whatever was typed
\* before, there is no fetch, no notice and no insertion.
C13_CancelNoEffects ==
  closedBy = "cancel" =>
    /\ calls = <<>>
    /\ requests = <<>>
    /\ notices = <<>>
    /\ inserted = <<>>

\* C14: whatever settings change arrives while an invocation is suspended, its
\* second request is made to the Wikipedia of the language set when the
\* invocation started, and the text it inserts is the extract formatted with
\* the settings of that moment.
C14_SettingsAtStart ==
  /\ Len(requests) = 2 =>
       requests[2] = getApiUrl(settingsAtStart) \o EncodeURIComponent(calls[2])
  /\ inserted # <<>> =>
       inserted[1] = formatExtractInsert(extract, searchTerm, settingsAtStart).val
====
